---- MODULE Spec2Model ----
(***************************************************************************)
(* Model of src/index.js (CommitGhiranAi): the Spanish commit-message      *)
(* generator.  Texts are TLA+ strings (sequences of characters), so the    *)
(* string conversions of the source (split, join, trim, toLowerCase,       *)
(* includes, substring) are computed character by character.               *)
(*                                                                         *)
(* src/index.js holds three versions of the program one after the other:   *)
(* "simple" (lines 1-330: one prompt, three attempts), "spanish" (lines    *)
(* 540-1181: chunking and language validation, five attempts) and          *)
(* "chunked" (lines 1182-1709: chunking, no language validation).  The     *)
(* variable version says which one runs.                                   *)
(***************************************************************************)
EXTENDS Integers, Sequences, FiniteSets, TLC

VARIABLES
  \* validateSpanishCommit applied to one (title, body)
  vTitle, vBody, verdict, vpc,
  \* splitDiffIntoChunks: the locals of one call
  cDiff, maxTokens, lines, idx, chunks, currentChunk, currentTokens, cpc,
  \* bookkeeping of splitDiffIntoChunks: for every pushed chunk, the statement
  \* that pushed it, the number of leading lines seeded as overlap and, for a
  \* window of splitLongLine, the index of the line it was cut from; and the
  \* number of leading lines of currentChunk that are overlap
  chunkInfo, chunkSeed,
  \* the run of the program
  version,        \* which of the three versions runs
  listMode,       \* args.list
  stagedDiff,     \* what git diff --cached prints
  replyPool,      \* the texts the backend may answer a generation prompt with
  pc,             \* where the run is
  exitCode,       \* "none" while running, then "0" or "1"
  exitReason,     \* what ended the run
  diff,           \* runInteractive: const diff
  fn,             \* the retry loop that is running
  caller,         \* who called it: "generateCommit", "generateListCommits" or "none"
  attempts, title, body,   \* the locals of the retry loop
  returned,       \* <<>> or the one message the retry loop returned
  diffChunks, analyses, loopI, consolidatedAnalysis,  \* generateCommit / generateListCommits
  options,        \* generateListCommits: validOptions / options
  commits,        \* the messages makeCommit was called with
  regenerations,  \* how often the user asked to regenerate
  \* bookkeeping of the backend traffic
  calls,          \* backend calls issued by the run
  loopCalls,      \* backend calls issued by the running retry loop
  loopReplies,    \* the replies the running retry loop has received
  lastEvent       \* "call" or "delay": the later of the last call and the last delay

vvars == <<vTitle, vBody, verdict, vpc>>
cvars == <<cDiff, maxTokens, lines, idx, chunks, currentChunk, currentTokens, cpc, chunkInfo, chunkSeed>>
cfgVars == <<version, listMode, stagedDiff, replyPool>>
exitVars == <<exitCode, exitReason>>
loopVars == <<attempts, title, body, returned, loopReplies, loopCalls>>
genVars == <<diff, diffChunks, analyses, loopI, consolidatedAnalysis, options>>
userVars == <<commits, regenerations>>
pvars == <<cfgVars, exitVars, loopVars, genVars, userVars, pc, fn, caller, calls, lastEvent>>
vars == <<vvars, cvars, pvars>>

----------------------------------------------------------------------------
(* JavaScript string primitives *)

Min(a, b) == IF a <= b THEN a ELSE b

Char(s, k) == SubSeq(s, k, k)

\* String.prototype.substring(from, to) with 0-based, end-exclusive indices
Substring(s, from, to) == SubSeq(s, from + 1, Min(to, Len(s)))

\* String.prototype.slice(from) with a 0-based index
SliceFrom(s, from) == SubSeq(s, from + 1, Len(s))

\* String.prototype.indexOf(sub), 0-based, -1 when absent
IndexOf(s, sub) ==
  LET at(k) == k + Len(sub) - 1 <= Len(s) /\ SubSeq(s, k, k + Len(sub) - 1) = sub
  IN  IF \E k \in 1..Len(s) : at(k)
      THEN (CHOOSE k \in 1..Len(s) : at(k) /\ \A j \in 1..(k - 1) : ~at(j)) - 1
      ELSE -1

\* String.prototype.split(sep) for a non-empty separator
RECURSIVE Split(_, _)
Split(s, sep) ==
  LET p == IndexOf(s, sep)
  IN  IF p < 0 THEN <<s>>
      ELSE <<Substring(s, 0, p)>> \o Split(SliceFrom(s, p + Len(sep)), sep)

\* Array.prototype.join(sep)
RECURSIVE Join(_, _)
Join(arr, sep) ==
  IF Len(arr) = 0 THEN ""
  ELSE IF Len(arr) = 1 THEN arr[1]
  ELSE arr[1] \o sep \o Join(Tail(arr), sep)

\* Array.prototype.filter(Boolean) on an array of strings: drops the empty ones
RECURSIVE FilterNonEmpty(_)
FilterNonEmpty(arr) ==
  IF Len(arr) = 0 THEN <<>>
  ELSE IF arr[1] = "" THEN FilterNonEmpty(Tail(arr))
  ELSE <<arr[1]>> \o FilterNonEmpty(Tail(arr))

\* Array.prototype.slice(-n) for 1 <= n <= length: the last n elements
SliceLast(arr, n) == SubSeq(arr, Len(arr) - n + 1, Len(arr))

WhiteSpace == {" ", "\n", "\t", "\r"}

\* String.prototype.trim()
RECURSIVE TrimStart(_)
TrimStart(s) ==
  IF Len(s) > 0 /\ Char(s, 1) \in WhiteSpace THEN TrimStart(SliceFrom(s, 1)) ELSE s

RECURSIVE TrimEnd(_)
TrimEnd(s) ==
  IF Len(s) > 0 /\ Char(s, Len(s)) \in WhiteSpace
  THEN TrimEnd(Substring(s, 0, Len(s) - 1)) ELSE s

Trim(s) == TrimEnd(TrimStart(s))

UpperToLower ==
  "A" :> "a" @@ "B" :> "b" @@ "C" :> "c" @@ "D" :> "d" @@ "E" :> "e" @@
  "F" :> "f" @@ "G" :> "g" @@ "H" :> "h" @@ "I" :> "i" @@ "J" :> "j" @@
  "K" :> "k" @@ "L" :> "l" @@ "M" :> "m" @@ "N" :> "n" @@ "O" :> "o" @@
  "P" :> "p" @@ "Q" :> "q" @@ "R" :> "r" @@ "S" :> "s" @@ "T" :> "t" @@
  "U" :> "u" @@ "V" :> "v" @@ "W" :> "w" @@ "X" :> "x" @@ "Y" :> "y" @@
  "Z" :> "z"

LowerChar(c) == IF c \in DOMAIN UpperToLower THEN UpperToLower[c] ELSE c

\* String.prototype.toLowerCase()
RECURSIVE ToLowerCase(_)
ToLowerCase(s) ==
  IF Len(s) = 0 THEN ""
  ELSE LowerChar(Char(s, 1)) \o ToLowerCase(SliceFrom(s, 1))

\* String.prototype.includes(needle)
Includes(s, needle) ==
  \E k \in 0..(Len(s) - Len(needle)) : Substring(s, k, k + Len(needle)) = needle

\* Array.prototype.includes(x)
ArrayIncludes(arr, x) == \E k \in 1..Len(arr) : arr[k] = x

----------------------------------------------------------------------------
(* estimateTokens: Math.ceil(text.length / 4) *)

estimateTokens(text) == (Len(text) + 3) \div 4

----------------------------------------------------------------------------
(* validateSpanishCommit *)

englishKeywords == <<
  "add", "added", "adding", "create", "created", "creating", "update", "updated", "updating",
  "fix", "fixed", "fixing", "remove", "removed", "removing", "delete", "deleted", "deleting",
  "implement", "implemented", "implementing", "improve", "improved", "improving",
  "refactor", "refactored", "refactoring", "change", "changed", "changing",
  "modify", "modified", "modifying", "enhance", "enhanced", "enhancing" >>

spanishKeywords == <<
  "agregar", "añadir", "crear", "actualizar", "corregir", "solucionar", "arreglar",
  "eliminar", "remover", "implementar", "mejorar", "refactorizar", "cambiar",
  "modificar", "optimizar", "configurar", "integrar", "desarrollar" >>

\* keywords.some(keyword => text.includes(keyword.toLowerCase()))
SomeKeywordIn(keywords, text) ==
  \E k \in 1..Len(keywords) : Includes(text, ToLowerCase(keywords[k]))

\* A validator that also demands a Spanish keyword for validity.
validateSpanishCommit_requireSpanish(t, b) ==
  LET fullText == ToLowerCase(t \o " " \o b)
      hasEnglish == SomeKeywordIn(englishKeywords, fullText)
      hasSpanish == SomeKeywordIn(spanishKeywords, fullText)
      isEnglishTitle == SomeKeywordIn(englishKeywords, ToLowerCase(t))
  IN  [isValid |-> ~hasEnglish /\ ~isEnglishTitle /\ hasSpanish,
       hasSpanish |-> hasSpanish,
       hasEnglish |-> hasEnglish,
       isEnglishTitle |-> isEnglishTitle]

validateSpanishCommit(t, b) ==
  LET fullText == ToLowerCase(t \o " " \o b)
      hasEnglish == SomeKeywordIn(englishKeywords, fullText)
      hasSpanish == SomeKeywordIn(spanishKeywords, fullText)
      titleLower == ToLowerCase(t)
      isEnglishTitle == SomeKeywordIn(englishKeywords, titleLower)
  IN  [isValid |-> ~hasEnglish /\ ~isEnglishTitle,
       hasSpanish |-> hasSpanish,
       hasEnglish |-> hasEnglish,
       isEnglishTitle |-> isEnglishTitle]

----------------------------------------------------------------------------
(* splitLongLine and splitDiffIntoChunks *)

\* Math.min(5, currentChunk.length): the number of overlap lines kept
OverlapLines == 5

\* The for loop of splitLongLine from offset i on
RECURSIVE LongLineWindows(_, _, _)
LongLineWindows(line, i, maxLength) ==
  IF i < Len(line)
  THEN <<Substring(line, i, i + maxLength)>> \o LongLineWindows(line, i + maxLength, maxLength)
  ELSE <<>>

splitLongLine(line, maxTok) ==
  LET maxLength == maxTok * 4
  IN  LongLineWindows(line, 0, maxLength)

\* The locals of splitDiffIntoChunks before the loop.  seed and info are the
\* bookkeeping described at chunkInfo.
ChunkLocals0 ==
  [chunks |-> <<>>, currentChunk |-> <<>>, currentTokens |-> 0, seed |-> 0, info |-> <<>>]

\* lineTokens > maxTokens
IsOversized(line, maxTok) == estimateTokens(line) > maxTok

\* currentTokens + lineTokens > maxTokens && currentChunk.length > 0
MustFlush(st, line, maxTok) ==
  st.currentTokens + estimateTokens(line) > maxTok /\ Len(st.currentChunk) > 0

\* An oversized-line branch that keeps the last lines of the flushed chunk as
\* overlap for the chunk after the windows.
OversizedBranch_seedOverlap(st, line, lineNo, maxTok) ==
  LET flushed == Len(st.currentChunk) > 0
      before == IF flushed THEN <<Join(st.currentChunk, "\n")>> ELSE <<>>
      beforeInfo == IF flushed
                    THEN <<[path |-> "preflush", seed |-> st.seed, src |-> 0]>>
                    ELSE <<>>
      longLineChunks == splitLongLine(line, maxTok)
      overlapLines == Min(OverlapLines, Len(st.currentChunk))
      kept == SliceLast(st.currentChunk, overlapLines)
  IN  [chunks |-> st.chunks \o before \o longLineChunks,
       currentChunk |-> kept,
       currentTokens |-> estimateTokens(Join(kept, "\n")),
       seed |-> overlapLines,
       info |-> st.info \o beforeInfo \o
                [k \in 1..Len(longLineChunks) |-> [path |-> "window", seed |-> 0, src |-> lineNo]]]

\* The oversized-line branch: flush what is accumulated, push the windows, continue
OversizedBranch(st, line, lineNo, maxTok) ==
  LET flushed == Len(st.currentChunk) > 0
      before == IF flushed THEN <<Join(st.currentChunk, "\n")>> ELSE <<>>
      beforeInfo == IF flushed
                    THEN <<[path |-> "preflush", seed |-> st.seed, src |-> 0]>>
                    ELSE <<>>
      longLineChunks == splitLongLine(line, maxTok)
  IN  [chunks |-> st.chunks \o before \o longLineChunks,
       currentChunk |-> <<>>,
       currentTokens |-> 0,
       seed |-> 0,
       info |-> st.info \o beforeInfo \o
                [k \in 1..Len(longLineChunks) |-> [path |-> "window", seed |-> 0, src |-> lineNo]]]

\* A flush that seeds the next chunk with the first lines of the flushed one.
FlushBranch_headOverlap(st) ==
  LET overlapLines == Min(OverlapLines, Len(st.currentChunk))
      kept == SubSeq(st.currentChunk, 1, overlapLines)
  IN  [chunks |-> Append(st.chunks, Join(st.currentChunk, "\n")),
       currentChunk |-> kept,
       currentTokens |-> estimateTokens(Join(kept, "\n")),
       seed |-> overlapLines,
       info |-> Append(st.info, [path |-> "flush", seed |-> st.seed, src |-> 0])]

\* A flush that drops the accumulated lines instead of pushing them.
FlushBranch_dropChunk(st) ==
  LET overlapLines == Min(OverlapLines, Len(st.currentChunk))
      kept == SliceLast(st.currentChunk, overlapLines)
  IN  [chunks |-> st.chunks,
       currentChunk |-> kept,
       currentTokens |-> estimateTokens(Join(kept, "\n")),
       seed |-> st.seed,
       info |-> st.info]

\* The flush branch: push the chunk, keep its last lines as overlap
FlushBranch(st) ==
  LET overlapLines == Min(OverlapLines, Len(st.currentChunk))
      kept == SliceLast(st.currentChunk, overlapLines)
  IN  [chunks |-> Append(st.chunks, Join(st.currentChunk, "\n")),
       currentChunk |-> kept,
       currentTokens |-> estimateTokens(Join(kept, "\n")),
       seed |-> overlapLines,
       info |-> Append(st.info, [path |-> "flush", seed |-> st.seed, src |-> 0])]

\* currentChunk.push(line); currentTokens += lineTokens
PushLine(st, line) ==
  [st EXCEPT !.currentChunk = Append(@, line),
             !.currentTokens = @ + estimateTokens(line)]

\* One iteration of the for loop over lines
ChunkIteration(st, line, lineNo, maxTok) ==
  IF IsOversized(line, maxTok) THEN OversizedBranch(st, line, lineNo, maxTok)
  ELSE IF MustFlush(st, line, maxTok) THEN PushLine(FlushBranch(st), line)
  ELSE PushLine(st, line)

\* An end of loop that forgets the chunk still accumulated.
FinalFlush_forgotten(st) == st

\* After the loop: push the last chunk if it is not empty
FinalFlush(st) ==
  IF Len(st.currentChunk) > 0
  THEN [st EXCEPT !.chunks = Append(@, Join(st.currentChunk, "\n")),
                  !.info = Append(@, [path |-> "final", seed |-> st.seed, src |-> 0])]
  ELSE st

RECURSIVE ChunkLoop(_, _, _, _)
ChunkLoop(st, ls, i, maxTok) ==
  IF i < Len(ls)
  THEN ChunkLoop(ChunkIteration(st, ls[i + 1], i + 1, maxTok), ls, i + 1, maxTok)
  ELSE st

splitDiffIntoChunks(d, maxTok) ==
  FinalFlush(ChunkLoop(ChunkLocals0, Split(d, "\n"), 0, maxTok)).chunks

----------------------------------------------------------------------------
(* The retry loops: generateCommit (simple), generateSingleCommit and       *)
(* generateCommitFromAnalysis (spanish, chunked)                            *)

Versions == {"simple", "spanish", "chunked"}

validTypes ==
  <<"feat", "fix", "docs", "style", "refactor", "perf", "test", "chore", "build", "ci", "revert">>

\* while (attempts < 5) in the spanish version, while (attempts < 3) in the others
MaxAttempts(v) == IF v = "spanish" THEN 5 ELSE 3

\* Only the spanish version calls validateSpanishCommit
LanguageValidation(v) == v = "spanish"

\* The retry loops a version has
RetryLoops(v) ==
  IF v = "simple" THEN {"generateCommit"}
  ELSE {"generateSingleCommit", "generateCommitFromAnalysis"}

\* const [firstLine, ...rest] = fullMessage.split('\n').filter(Boolean);
\* title = firstLine.trim(); body = rest.join('\n').trim();
\* firstLine is undefined when no line is left, and firstLine.trim() throws
ParseReply(fullMessage) ==
  LET parts == FilterNonEmpty(Split(fullMessage, "\n"))
  IN  IF Len(parts) = 0
      THEN [threw |-> TRUE, title |-> "", body |-> ""]
      ELSE [threw |-> FALSE,
            title |-> Trim(parts[1]),
            body |-> Trim(Join(Tail(parts), "\n"))]

\* const commitType = title.split(':')[0].trim()
CommitTypeOf(t) == Trim(Split(t, ":")[1])

\* An acceptance test that forgets the body.
Accepts_anyBody(v, t, b) ==
  /\ ArrayIncludes(validTypes, CommitTypeOf(t))
  /\ LanguageValidation(v) => validateSpanishCommit(t, b).isValid

\* body.length > 0 && validTypes.includes(commitType) [&& spanishValidation.isValid]
Accepts(v, t, b) ==
  /\ Len(b) > 0
  /\ ArrayIncludes(validTypes, CommitTypeOf(t))
  /\ LanguageValidation(v) => validateSpanishCommit(t, b).isValid

----------------------------------------------------------------------------
(* analyzeChunk, consolidateAnalysis and the option parser of generateListCommits *)

\* The scaled-down MAX_TOKEN_LENGTH (13050 in the source): the estimated cost
\* above which a diff is split into chunks
MAX_TOKEN_LENGTH == 3

\* parseInt(numOptions) with the default numOptions = "3"
NumOptions == 3

\* response.match(/\{[\s\S]*\}/): from the first '{' to the last '}' behind it
MatchBraces(response) ==
  LET open == IndexOf(response, "{")
      closes == {k \in 1..Len(response) : Char(response, k) = "}" /\ k - 1 > open}
  IN  IF open < 0 \/ closes = {}
      THEN [found |-> FALSE, text |-> ""]
      ELSE [found |-> TRUE,
            text |-> Substring(response, open,
                               CHOOSE k \in closes : \A j \in closes : j <= k)]

\* JSON.parse on the texts the backend's analysis answers hold between braces;
\* any other text is not JSON and makes JSON.parse throw
JsonTexts ==
  ("{\"tipo_principal\":\"fix\",\"componentes\":[\"api\",\"ui\"],\"cambios\":[\"corregir ruta\",\"ajustar vista\"],\"contexto\":\"dos rutas\"}"
     :> [tipo_principal |-> "fix", componentes |-> <<"api", "ui">>,
         cambios |-> <<"corregir ruta", "ajustar vista">>, contexto |-> "dos rutas"])
  @@
  ("{\"componentes\":[\"ui\"]}"
     :> [componentes |-> <<"ui">>])

JsonParse(text) ==
  IF text \in DOMAIN JsonTexts
  THEN [threw |-> FALSE, value |-> JsonTexts[text]]
  ELSE [threw |-> TRUE, value |-> [error |-> "SyntaxError"]]

\* analyzeChunk after the backend answered: the decoded object, or the manual
\* analysis when there is no match or JSON.parse throws
analyzeChunk(response, chunkIndex) ==
  LET jsonMatch == MatchBraces(response)
      parsed == JsonParse(jsonMatch.text)
  IN  IF jsonMatch.found /\ ~parsed.threw
      THEN parsed.value
      ELSE [tipo_principal |-> "chore",
            componentes |-> <<"codigo">>,
            cambios |-> <<"Cambios en fragmento " \o ToString(chunkIndex + 1)>>,
            contexto |-> Substring(response, 0, 100) \o "..."]

\* tiposFrecuencia[tipo] = (tiposFrecuencia[tipo] || 0) + 1 on an object whose
\* keys keep their insertion order; a missing tipo_principal is the key "undefined"
TipoOf(analysis) ==
  IF "tipo_principal" \in DOMAIN analysis THEN analysis.tipo_principal ELSE "undefined"

CountTipo(freq, tipo) ==
  IF \E k \in 1..Len(freq) : freq[k].tipo = tipo
  THEN [k \in 1..Len(freq) |->
          IF freq[k].tipo = tipo THEN [freq[k] EXCEPT !.count = @ + 1] ELSE freq[k]]
  ELSE Append(freq, [tipo |-> tipo, count |-> 1])

RECURSIVE TiposFrecuencia(_)
TiposFrecuencia(as) ==
  IF Len(as) = 0 THEN <<>>
  ELSE CountTipo(TiposFrecuencia(SubSeq(as, 1, Len(as) - 1)), TipoOf(as[Len(as)]))

\* A tally that lets the last of the most frequent types win.
TipoPrincipal_lastMax(freq) ==
  freq[CHOOSE k \in 1..Len(freq) :
         /\ \A j \in 1..Len(freq) : freq[j].count <= freq[k].count
         /\ \A j \in (k + 1)..Len(freq) : freq[j].count < freq[k].count].tipo

\* Object.entries(tiposFrecuencia).sort(([,a], [,b]) => b - a)[0][0]: the sort
\* is stable, so the first entry with the highest count
TipoPrincipal(freq) ==
  freq[CHOOSE k \in 1..Len(freq) :
         /\ \A j \in 1..Len(freq) : freq[j].count <= freq[k].count
         /\ \A j \in 1..(k - 1) : freq[j].count < freq[k].count].tipo

\* if (analysis.f) all.push(...analysis.f) over the analyses, for an array field f
RECURSIVE Collect(_, _)
Collect(as, f) ==
  IF Len(as) = 0 THEN <<>>
  ELSE (IF f \in DOMAIN as[1] THEN as[1][f] ELSE <<>>) \o Collect(Tail(as), f)

\* A collection of contexts that pushes the empty ones too.
RECURSIVE Contextos_keepEmpty(_)
Contextos_keepEmpty(as) ==
  IF Len(as) = 0 THEN <<>>
  ELSE <<IF "contexto" \in DOMAIN as[1] THEN as[1].contexto ELSE "">>
       \o Contextos_keepEmpty(Tail(as))

\* if (analysis.contexto) contextos.push(analysis.contexto)
RECURSIVE Contextos(_)
Contextos(as) ==
  IF Len(as) = 0 THEN <<>>
  ELSE (IF "contexto" \in DOMAIN as[1] /\ as[1].contexto # ""
        THEN <<as[1].contexto>> ELSE <<>>) \o Contextos(Tail(as))

\* A deduplication that keeps the last occurrence of every element.
RECURSIVE Unique_keepLast(_)
Unique_keepLast(arr) ==
  IF Len(arr) = 0 THEN <<>>
  ELSE LET rest == Unique_keepLast(Tail(arr))
       IN  IF ArrayIncludes(rest, arr[1]) THEN rest ELSE <<arr[1]>> \o rest

\* [...new Set(arr)]: the first occurrence of every element, in order
RECURSIVE Unique(_)
Unique(arr) ==
  IF Len(arr) = 0 THEN <<>>
  ELSE LET init == Unique(SubSeq(arr, 1, Len(arr) - 1))
           x == arr[Len(arr)]
       IN  IF ArrayIncludes(init, x) THEN init ELSE Append(init, x)

\* consolidateAnalysis of a non-empty list
consolidateAnalysis(as) ==
  [tipo_principal |-> TipoPrincipal(TiposFrecuencia(as)),
   componentes |-> Unique(Collect(as, "componentes")),
   cambios |-> Collect(as, "cambios"),
   contexto_general |-> Join(Contextos(as), ". ")]

\* response.split('\n').filter(opt => opt.includes('|||')).map(opt => {
\*   const [title, body] = opt.split('|||');
\*   return { title: title.trim(), body: body?.trim() || "" } })
RECURSIVE OptionsOfLines(_)
OptionsOfLines(ls) ==
  IF Len(ls) = 0 THEN <<>>
  ELSE IF Includes(ls[1], "|||")
       THEN LET parts == Split(ls[1], "|||")
            IN  <<[title |-> Trim(parts[1]), body |-> Trim(parts[2])]>>
                \o OptionsOfLines(Tail(ls))
       ELSE OptionsOfLines(Tail(ls))

ParseOptions(response) == OptionsOfLines(Split(response, "\n"))

\* for (const option of options) if (validateSpanishCommit(option.title,
\*   option.body).isValid && validOptions.length < parseInt(numOptions))
\*   validOptions.push(option)
RECURSIVE PushValidOptions(_, _)
PushValidOptions(validOptions, opts) ==
  IF Len(opts) = 0 THEN validOptions
  ELSE PushValidOptions(
         IF validateSpanishCommit(opts[1].title, opts[1].body).isValid
            /\ Len(validOptions) < NumOptions
         THEN Append(validOptions, opts[1])
         ELSE validOptions,
         Tail(opts))

----------------------------------------------------------------------------
(* The backend's repertoire of answers to a generation prompt *)

\* What the backend may answer when a retry loop runs on its own
RetryReplies ==
  {"feat: agregar validacion\n* crear formulario",
   "docs: nueva guia\n\n* detalles varios\n* mas notas",
   "fix: corregir error\nagregar validacion",
   "feat: add login\n* create form",
   "feat: nueva version",
   "hola: nueva version\n* detalles varios",
   "",
   " \n",
   "feat(api): agregar validacion\n* crear formulario",
   "chore : ajustar entorno\n* limpiar cache",
   "feat: agregar validacion de formularios en modulo de pagos\n* crear formulario",
   "test\n* crear pruebas"}

\* What the backend may answer in a run of the whole program
PipelineReplies ==
  {"feat: agregar validacion\n* crear formulario",
   "feat: add login\n* create form",
   "feat: nueva version",
   ""}

AllReplies == RetryReplies \cup PipelineReplies

\* ParseReply and Accepts of every answer, computed once
ParsedReply == [r \in AllReplies |-> ParseReply(r)]

AcceptedBy ==
  [v \in Versions |->
     [r \in AllReplies |->
        /\ ~ParsedReply[r].threw
        /\ Accepts(v, ParsedReply[r].title, ParsedReply[r].body)]]


\* What the backend may answer to the analysis prompt of analyzeChunk
AnalysisReplies ==
  {"Resultado: {\"tipo_principal\":\"fix\",\"componentes\":[\"api\",\"ui\"],\"cambios\":[\"corregir ruta\",\"ajustar vista\"],\"contexto\":\"dos rutas\"} fin",
   "{\"componentes\":[\"ui\"]}",
   "sin formato"}

\* What the backend may answer to the list prompt of generateListCommits
ListReplies ==
  {"feat: agregar login|||* crear formulario\ndocs: nueva guia|||* detalles varios",
   "hola mundo|||",
   "feat: add login|||* create form",
   "sin opciones"}

\* ParseOptions of every list answer, computed once
ParsedOptions == [r \in ListReplies |-> ParseOptions(r)]

\* What git diff --cached may print in a run of the whole program
PipelineDiffs ==
  {"", " \n", "+a", "wxyz\nwxyz\nwxyz", "wxyz\nwxyz\nwxyz\nwxyz",
   "0123456789abc\n0123456789abc"}

\* splitDiffIntoChunks(diff) of every such diff, computed once
ChunksOf == [d \in PipelineDiffs |-> splitDiffIntoChunks(d, MAX_TOKEN_LENGTH)]

\* How often the user may pick "regenerate"
MaxRegenerations == 1
----------------------------------------------------------------------------
(* The steps of a retry loop *)

NoAnalysis == [tipo_principal |-> "", componentes |-> <<>>, cambios |-> <<>>, contexto_general |-> ""]

\* Nothing of the program runs
PipelineIdle ==
  /\ version = "spanish" /\ listMode = FALSE /\ stagedDiff = "" /\ replyPool = {}
  /\ pc = "idle" /\ exitCode = "none" /\ exitReason = ""
  /\ diff = "" /\ fn = "none" /\ caller = "none"
  /\ attempts = 0 /\ title = "" /\ body = "" /\ returned = <<>>
  /\ diffChunks = <<>> /\ analyses = <<>> /\ loopI = 0 /\ consolidatedAnalysis = NoAnalysis
  /\ options = <<>> /\ commits = <<>> /\ regenerations = 0
  /\ calls = 0 /\ loopCalls = 0 /\ loopReplies = <<>> /\ lastEvent = "none"

\* let attempts = 0; let title = "", body = "";
EnterLoop(f, c) ==
  /\ fn' = f /\ caller' = c
  /\ attempts' = 0 /\ title' = "" /\ body' = ""
  /\ returned' = <<>> /\ loopReplies' = <<>> /\ loopCalls' = 0
  /\ pc' = "loop"

\* process.exit(code)
Exit(code, reason) ==
  /\ exitCode' = code /\ exitReason' = reason /\ pc' = "exited"

\* while (attempts < max) { const fullMessage = await callQwenAPI(prompt);
LoopCall ==
  /\ pc = "loop" /\ attempts < MaxAttempts(version)
  /\ pc' = "await_reply"
  /\ calls' = calls + 1 /\ loopCalls' = loopCalls + 1 /\ lastEvent' = "call"
  /\ UNCHANGED <<cfgVars, exitVars, genVars, userVars, fn, caller,
                 attempts, title, body, returned, loopReplies>>

\* The loop ends without a return: console.error(...); process.exit(1)
LoopExhausted ==
  /\ pc = "loop" /\ attempts >= MaxAttempts(version)
  /\ Exit("1", "ExhaustedRetries")
  /\ UNCHANGED <<cfgVars, loopVars, genVars, userVars, fn, caller, calls, lastEvent>>

\* The reply passes the test: return { title, body }
ReplyAccepted ==
  /\ pc = "await_reply"
  /\ \E fullMessage \in replyPool :
       LET m == ParsedReply[fullMessage]
       IN  /\ ~m.threw
           /\ AcceptedBy[version][fullMessage]
           /\ title' = m.title /\ body' = m.body
           /\ returned' = <<[title |-> m.title, body |-> m.body]>>
           /\ loopReplies' = Append(loopReplies, fullMessage)
  /\ pc' = "returned"
  /\ UNCHANGED <<cfgVars, exitVars, genVars, userVars, fn, caller, calls, lastEvent,
                 attempts, loopCalls>>

\* The reply fails the test: console.warn(...); attempts++
ReplyRejected ==
  /\ pc = "await_reply"
  /\ \E fullMessage \in replyPool :
       LET m == ParsedReply[fullMessage]
       IN  /\ ~m.threw
           /\ ~AcceptedBy[version][fullMessage]
           /\ title' = m.title /\ body' = m.body
           /\ loopReplies' = Append(loopReplies, fullMessage)
  /\ attempts' = attempts + 1
  /\ pc' = "loop"
  /\ UNCHANGED <<cfgVars, exitVars, genVars, userVars, fn, caller, calls, lastEvent,
                 returned, loopCalls>>

\* The reply has no non-empty line: firstLine.trim() throws a TypeError, which
\* nothing catches; the process ends with a non-zero status
ReplyThrows ==
  /\ pc = "await_reply"
  /\ \E fullMessage \in replyPool :
       /\ ParsedReply[fullMessage].threw
       /\ loopReplies' = Append(loopReplies, fullMessage)
  /\ Exit("1", "TypeError")
  /\ UNCHANGED <<cfgVars, genVars, userVars, fn, caller, calls, lastEvent,
                 attempts, title, body, returned, loopCalls>>

\* A failed call that is issued again instead of ending the run.
BackendError_retried ==
  /\ pc \in {"await_reply", "await_analysis", "await_list"}
  /\ exitReason' = "BackendError"
  /\ calls' = calls + 1
  /\ UNCHANGED <<cfgVars, loopVars, genVars, userVars, fn, caller, lastEvent, pc, exitCode>>

\* callQwenAPI: axios.post fails; catch: console.error(...); process.exit(1)
BackendError ==
  /\ pc \in {"await_reply", "await_analysis", "await_list"}
  /\ Exit("1", "BackendError")
  /\ UNCHANGED <<cfgVars, loopVars, genVars, userVars, fn, caller, calls, lastEvent>>

----------------------------------------------------------------------------
(* The steps of runInteractive, generateCommit, generateListCommits and makeCommit *)

\* fresh locals of generateCommit / generateListCommits
NoGeneration ==
  /\ diffChunks' = <<>> /\ analyses' = <<>> /\ loopI' = 0
  /\ consolidatedAnalysis' = NoAnalysis /\ options' = <<>>

\* An empty diff that ends the run with status 1.
ExitNoChanges_exitOne ==
  /\ pc = "start"
  /\ Trim(stagedDiff) = ""
  /\ diff' = stagedDiff
  /\ Exit("1", "NoChanges")
  /\ UNCHANGED <<cfgVars, loopVars, userVars, fn, caller, calls, lastEvent,
                 diffChunks, analyses, loopI, consolidatedAnalysis, options>>

\* runInteractive: if (!diff.trim()) { console.log(...); process.exit(0) }
ExitNoChanges ==
  /\ pc = "start"
  /\ Trim(stagedDiff) = ""
  /\ diff' = stagedDiff
  /\ Exit("0", "NoChanges")
  /\ UNCHANGED <<cfgVars, loopVars, userVars, fn, caller, calls, lastEvent,
                 diffChunks, analyses, loopI, consolidatedAnalysis, options>>

\* The first version's generateCommit: the retry loop on the whole diff
GenerateSimple ==
  /\ pc = "start" /\ Trim(stagedDiff) # ""
  /\ ~listMode /\ version = "simple"
  /\ diff' = stagedDiff
  /\ NoGeneration
  /\ EnterLoop("generateCommit", "runInteractive")
  /\ UNCHANGED <<cfgVars, exitVars, userVars, calls, lastEvent>>

\* generateCommit: if (diffTokens <= MAX_TOKEN_LENGTH) return await generateSingleCommit(diff)
GenerateSingle ==
  /\ pc = "start" /\ Trim(stagedDiff) # ""
  /\ ~listMode /\ version # "simple"
  /\ estimateTokens(stagedDiff) <= MAX_TOKEN_LENGTH
  /\ diff' = stagedDiff
  /\ NoGeneration
  /\ EnterLoop("generateSingleCommit", "generateCommit")
  /\ UNCHANGED <<cfgVars, exitVars, userVars, calls, lastEvent>>

\* generateCommit and generateListCommits on a long diff:
\* const chunks = splitDiffIntoChunks(diff); const analyses = []; i = 0
GenerateChunked ==
  /\ pc = "start" /\ Trim(stagedDiff) # ""
  /\ version # "simple"
  /\ estimateTokens(stagedDiff) > MAX_TOKEN_LENGTH
  /\ diff' = stagedDiff
  /\ diffChunks' = ChunksOf[stagedDiff]
  /\ analyses' = <<>> /\ loopI' = 0
  /\ consolidatedAnalysis' = NoAnalysis /\ options' = <<>>
  /\ caller' = IF listMode THEN "generateListCommits" ELSE "generateCommit"
  /\ pc' = "analyze"
  /\ UNCHANGED <<cfgVars, exitVars, loopVars, userVars, fn, calls, lastEvent>>

\* generateListCommits without a loop (first version; third version on a
\* short diff): const response = await callQwenAPI(prompt)
ListCall ==
  /\ pc = "start" /\ Trim(stagedDiff) # ""
  /\ listMode
  /\ \/ version = "simple"
     \/ version = "chunked" /\ estimateTokens(stagedDiff) <= MAX_TOKEN_LENGTH
  /\ diff' = stagedDiff
  /\ NoGeneration
  /\ caller' = "generateListCommits"
  /\ calls' = calls + 1 /\ lastEvent' = "call"
  /\ pc' = "await_list"
  /\ UNCHANGED <<cfgVars, exitVars, loopVars, userVars, fn>>

\* ... return response.split('\n').filter(...).map(...)
ListReplyUnchecked ==
  /\ pc = "await_list" /\ version # "spanish"
  /\ \E response \in ListReplies : options' = ParsedOptions[response]
  /\ pc' = "choose"
  /\ UNCHANGED <<cfgVars, exitVars, loopVars, userVars, fn, caller, calls, lastEvent,
                 diff, diffChunks, analyses, loopI, consolidatedAnalysis>>

\* Second version, short diff: let attempts = 0; let validOptions = []
ListLoopEnter ==
  /\ pc = "start" /\ Trim(stagedDiff) # ""
  /\ listMode /\ version = "spanish"
  /\ estimateTokens(stagedDiff) <= MAX_TOKEN_LENGTH
  /\ diff' = stagedDiff
  /\ NoGeneration
  /\ caller' = "generateListCommits"
  /\ attempts' = 0
  /\ pc' = "list_loop"
  /\ UNCHANGED <<cfgVars, exitVars, userVars, fn, calls, lastEvent,
                 title, body, returned, loopReplies, loopCalls>>

\* while (attempts < 3 && validOptions.length < parseInt(numOptions)) {
\*   const response = await callQwenAPI(prompt);
ListLoopCall ==
  /\ pc = "list_loop"
  /\ attempts < 3 /\ Len(options) < NumOptions
  /\ calls' = calls + 1 /\ lastEvent' = "call"
  /\ pc' = "await_list"
  /\ UNCHANGED <<cfgVars, exitVars, loopVars, genVars, userVars, fn, caller>>

\* ... the options of the reply that pass validateSpanishCommit are pushed; attempts++ }
ListLoopReply ==
  /\ pc = "await_list" /\ version = "spanish"
  /\ \E response \in ListReplies :
       options' = PushValidOptions(options, ParsedOptions[response])
  /\ attempts' = attempts + 1
  /\ pc' = "list_loop"
  /\ UNCHANGED <<cfgVars, exitVars, userVars, fn, caller, calls, lastEvent,
                 title, body, returned, loopReplies, loopCalls,
                 diff, diffChunks, analyses, loopI, consolidatedAnalysis>>

\* if (validOptions.length === 0) { console.error(...); process.exit(1) }
ListLoopNoOptions ==
  /\ pc = "list_loop"
  /\ ~(attempts < 3 /\ Len(options) < NumOptions)
  /\ Len(options) = 0
  /\ Exit("1", "NoValidOptions")
  /\ UNCHANGED <<cfgVars, loopVars, genVars, userVars, fn, caller, calls, lastEvent>>

\* return validOptions
ListLoopReturn ==
  /\ pc = "list_loop"
  /\ ~(attempts < 3 /\ Len(options) < NumOptions)
  /\ Len(options) # 0
  /\ pc' = "choose"
  /\ UNCHANGED <<cfgVars, exitVars, loopVars, genVars, userVars, fn, caller, calls, lastEvent>>

\* An analysis loop that stops after 3 chunks in generateCommit too.
AnalysisBound_atMostThree == Min(Len(diffChunks), 3)

\* The bound of the analysis loop: chunks.length in generateCommit,
\* Math.min(chunks.length, 3) in generateListCommits
AnalysisBound == IF listMode THEN Min(Len(diffChunks), 3) ELSE Len(diffChunks)

\* for (let i = 0; i < bound; i++) { const analysis = await analyzeChunk(chunks[i], i, chunks.length)
AnalyzeCall ==
  /\ pc = "analyze" /\ loopI < AnalysisBound
  /\ calls' = calls + 1 /\ lastEvent' = "call"
  /\ pc' = "await_analysis"
  /\ UNCHANGED <<cfgVars, exitVars, loopVars, genVars, userVars, fn, caller>>

\* ... analyses.push(analysis), and then a pause: always in
\* generateListCommits, in generateCommit if (i < chunks.length - 1)
AnalysisThenPause ==
  /\ pc = "await_analysis"
  /\ listMode \/ loopI < Len(diffChunks) - 1
  /\ \E response \in AnalysisReplies :
       analyses' = Append(analyses, analyzeChunk(response, loopI))
  /\ pc' = "pause_analysis"
  /\ UNCHANGED <<cfgVars, exitVars, loopVars, userVars, fn, caller, calls, lastEvent,
                 diff, diffChunks, loopI, consolidatedAnalysis, options>>

\* ... analyses.push(analysis) for the last chunk of generateCommit: no pause; i++
AnalysisLast ==
  /\ pc = "await_analysis"
  /\ ~(listMode \/ loopI < Len(diffChunks) - 1)
  /\ \E response \in AnalysisReplies :
       analyses' = Append(analyses, analyzeChunk(response, loopI))
  /\ loopI' = loopI + 1
  /\ pc' = "analyze"
  /\ UNCHANGED <<cfgVars, exitVars, loopVars, userVars, fn, caller, calls, lastEvent,
                 diff, diffChunks, consolidatedAnalysis, options>>

\* await new Promise(resolve => setTimeout(resolve, 1000)); i++
AnalysisPause ==
  /\ pc = "pause_analysis"
  /\ lastEvent' = "delay"
  /\ loopI' = loopI + 1
  /\ pc' = "analyze"
  /\ UNCHANGED <<cfgVars, exitVars, loopVars, userVars, fn, caller, calls,
                 diff, diffChunks, analyses, consolidatedAnalysis, options>>

\* const consolidatedAnalysis = consolidateAnalysis(analyses), which throws on
\* an empty list; then generateCommit calls generateCommitFromAnalysis and
\* generateListCommits starts its loop of options
Consolidate ==
  /\ pc = "analyze" /\ loopI >= AnalysisBound
  /\ IF Len(analyses) = 0
     THEN /\ Exit("1", "TypeError")
          /\ UNCHANGED <<loopVars, genVars, fn, caller>>
     ELSE /\ consolidatedAnalysis' = consolidateAnalysis(analyses)
          /\ UNCHANGED <<exitVars, diff, diffChunks, analyses>>
          /\ IF listMode
             THEN /\ options' = <<>> /\ loopI' = 0
                  /\ pc' = "options"
                  /\ UNCHANGED <<loopVars, fn, caller>>
             ELSE /\ EnterLoop("generateCommitFromAnalysis", "generateCommit")
                  /\ UNCHANGED <<options, loopI>>
  /\ UNCHANGED <<cfgVars, userVars, calls, lastEvent>>

\* for (let i = 0; i < parseInt(numOptions); i++) {
\*   const commit = await generateCommitFromAnalysis(consolidatedAnalysis)
OptionStart ==
  /\ pc = "options" /\ loopI < NumOptions
  /\ EnterLoop("generateCommitFromAnalysis", "generateListCommits")
  /\ UNCHANGED <<cfgVars, exitVars, genVars, userVars, calls, lastEvent>>

\* ... options.push(commit); await new Promise(resolve => setTimeout(resolve, 1000)); i++ }
OptionPush ==
  /\ pc = "returned" /\ caller = "generateListCommits"
  /\ options' = Append(options, returned[1])
  /\ lastEvent' = "delay"
  /\ loopI' = loopI + 1
  /\ pc' = "options"
  /\ UNCHANGED <<cfgVars, exitVars, loopVars, userVars, fn, caller, calls,
                 diff, diffChunks, analyses, consolidatedAnalysis>>

\* return options
OptionsReturn ==
  /\ pc = "options" /\ loopI >= NumOptions
  /\ pc' = "choose"
  /\ UNCHANGED <<cfgVars, exitVars, loopVars, genVars, userVars, fn, caller, calls, lastEvent>>

\* runInteractive: const { title, body } = await generateCommit(diff); the
\* message is shown and the user is asked to confirm
ShowMessage ==
  /\ pc = "returned" /\ caller \in {"runInteractive", "generateCommit"}
  /\ pc' = "confirm"
  /\ UNCHANGED <<cfgVars, exitVars, loopVars, genVars, userVars, fn, caller, calls, lastEvent>>

\* makeCommit(title, body): git commit with the message; the run ends
makeCommit(message) ==
  /\ commits' = Append(commits, message)
  /\ Exit("0", "Committed")

\* if (confirm) makeCommit(title, body)
Confirm ==
  /\ pc = "confirm"
  /\ makeCommit(returned[1])
  /\ UNCHANGED <<cfgVars, loopVars, genVars, regenerations, fn, caller, calls, lastEvent>>

\* else console.log("Operación cancelada")
Decline ==
  /\ pc = "confirm"
  /\ Exit("0", "Cancelled")
  /\ UNCHANGED <<cfgVars, loopVars, genVars, userVars, fn, caller, calls, lastEvent>>

\* The user picks one of the options: return makeCommit(selected.title, selected.body)
ChooseOption ==
  /\ pc = "choose"
  /\ \E k \in 1..Len(options) : makeCommit(options[k])
  /\ UNCHANGED <<cfgVars, loopVars, genVars, regenerations, fn, caller, calls, lastEvent>>

\* The user picks "regenerate": if (!selected) return await runInteractive(),
\* a new activation with fresh locals; the user's answer separates its backend
\* calls from those of the activation before
Regenerate ==
  /\ pc = "choose"
  /\ regenerations < MaxRegenerations
  /\ regenerations' = regenerations + 1
  /\ diff' = "" /\ NoGeneration
  /\ fn' = "none" /\ caller' = "none"
  /\ attempts' = 0 /\ title' = "" /\ body' = ""
  /\ returned' = <<>> /\ loopReplies' = <<>> /\ loopCalls' = 0
  /\ lastEvent' = "none"
  /\ pc' = "start"
  /\ UNCHANGED <<cfgVars, exitVars, commits, calls>>

----------------------------------------------------------------------------
(* The validator on its own: one (title, body) is drawn and validated *)

TitlePrefixes == {"feat", "fix", "docs", "refactor", "Chore", "add"}

TitleTexts ==
  {"corregir error", "nueva version", "Add login", "UPDATED docs", "implementar cache",
   "ajustar padding", "new feature"}

\* The words of the Spanish list, each as the text of a title and as a body
SpanishWords == {spanishKeywords[k] : k \in 1..Len(spanishKeywords)}

ValidatorTitles ==
  {p \o ": " \o t : p \in TitlePrefixes, t \in TitleTexts}
    \cup {"", "nueva version estable"}
    \cup {"feat: " \o w : w \in SpanishWords}

ValidatorBodies ==
  {"", "agregar validacion", "* crear pruebas", "* Fixed typo", "* detalles varios", "..."}
    \cup SpanishWords

ValidatorIdle == vTitle = "" /\ vBody = "" /\ verdict = "none" /\ vpc = "idle"

InitValidator ==
  /\ vTitle \in ValidatorTitles
  /\ vBody \in ValidatorBodies
  /\ verdict = "none"
  /\ vpc = "call"

\* const spanishValidation = validateSpanishCommit(title, body)
Validate ==
  /\ vpc = "call"
  /\ verdict' = validateSpanishCommit(vTitle, vBody)
  /\ vpc' = "done"
  /\ UNCHANGED <<vTitle, vBody>>

----------------------------------------------------------------------------
(* The chunker on its own: splitDiffIntoChunks(diff, maxTokens) run statement *)
(* by statement on a drawn diff and budget                                  *)

\* Bounds of the drawn inputs
MaxLines == 7
MaxBudget == 2

\* Lines of 0, 1 (exactly 4 characters) and 3 tokens
DiffLines == {"", "wxyz", "0123456789"}

ChunkerDiffs ==
  UNION {{Join(ls, "\n") : ls \in [1..n -> DiffLines]} : n \in 1..MaxLines}

ChunkerIdle ==
  /\ cDiff = "" /\ maxTokens = 0 /\ lines = <<>> /\ idx = 0
  /\ chunks = <<>> /\ currentChunk = <<>> /\ currentTokens = 0
  /\ chunkInfo = <<>> /\ chunkSeed = 0 /\ cpc = "idle"

InitChunker ==
  /\ cDiff \in ChunkerDiffs
  /\ maxTokens \in 1..MaxBudget
  /\ lines = <<>> /\ idx = 0
  /\ chunks = <<>> /\ currentChunk = <<>> /\ currentTokens = 0
  /\ chunkInfo = <<>> /\ chunkSeed = 0
  /\ cpc = "call"

ChunkLocals ==
  [chunks |-> chunks, currentChunk |-> currentChunk, currentTokens |-> currentTokens,
   seed |-> chunkSeed, info |-> chunkInfo]

SetChunkLocals(st) ==
  /\ chunks' = st.chunks
  /\ currentChunk' = st.currentChunk
  /\ currentTokens' = st.currentTokens
  /\ chunkSeed' = st.seed
  /\ chunkInfo' = st.info

\* const lines = diff.split('\n'); const chunks = []; let currentChunk = []; ...
SplitStart ==
  /\ cpc = "call"
  /\ lines' = Split(cDiff, "\n")
  /\ idx' = 0
  /\ SetChunkLocals(ChunkLocals0)
  /\ cpc' = "loop"
  /\ UNCHANGED <<cDiff, maxTokens>>

\* An iteration whose line alone exceeds the budget
IterateOversized ==
  /\ cpc = "loop" /\ idx < Len(lines)
  /\ IsOversized(lines[idx + 1], maxTokens)
  /\ SetChunkLocals(ChunkIteration(ChunkLocals, lines[idx + 1], idx + 1, maxTokens))
  /\ idx' = idx + 1
  /\ UNCHANGED <<cDiff, maxTokens, lines, cpc>>

\* An iteration that flushes the current chunk before appending the line
IterateFlush ==
  /\ cpc = "loop" /\ idx < Len(lines)
  /\ ~IsOversized(lines[idx + 1], maxTokens)
  /\ MustFlush(ChunkLocals, lines[idx + 1], maxTokens)
  /\ SetChunkLocals(ChunkIteration(ChunkLocals, lines[idx + 1], idx + 1, maxTokens))
  /\ idx' = idx + 1
  /\ UNCHANGED <<cDiff, maxTokens, lines, cpc>>

\* An iteration that only appends the line
IterateAppend ==
  /\ cpc = "loop" /\ idx < Len(lines)
  /\ ~IsOversized(lines[idx + 1], maxTokens)
  /\ ~MustFlush(ChunkLocals, lines[idx + 1], maxTokens)
  /\ SetChunkLocals(ChunkIteration(ChunkLocals, lines[idx + 1], idx + 1, maxTokens))
  /\ idx' = idx + 1
  /\ UNCHANGED <<cDiff, maxTokens, lines, cpc>>

\* The loop is over: push the last chunk and return chunks
SplitReturn ==
  /\ cpc = "loop" /\ idx = Len(lines)
  /\ SetChunkLocals(FinalFlush(ChunkLocals))
  /\ cpc' = "done"
  /\ UNCHANGED <<cDiff, maxTokens, lines, idx>>

----------------------------------------------------------------------------
(* A retry loop on its own, against a backend that answers from RetryReplies *)

InitRetry ==
  /\ version \in Versions
  /\ fn \in RetryLoops(version)
  /\ caller = "none"
  /\ listMode = FALSE /\ stagedDiff = "" /\ replyPool = RetryReplies
  /\ pc = "loop" /\ exitCode = "none" /\ exitReason = ""
  /\ diff = ""
  /\ attempts = 0 /\ title = "" /\ body = "" /\ returned = <<>>
  /\ diffChunks = <<>> /\ analyses = <<>> /\ loopI = 0 /\ consolidatedAnalysis = NoAnalysis
  /\ options = <<>> /\ commits = <<>> /\ regenerations = 0
  /\ calls = 0 /\ loopCalls = 0 /\ loopReplies = <<>> /\ lastEvent = "none"

----------------------------------------------------------------------------
(* A run of the whole program *)

InitPipeline ==
  /\ version \in Versions
  /\ listMode \in BOOLEAN
  /\ stagedDiff \in PipelineDiffs
  /\ replyPool = PipelineReplies
  /\ pc = "start" /\ exitCode = "none" /\ exitReason = ""
  /\ diff = "" /\ fn = "none" /\ caller = "none"
  /\ attempts = 0 /\ title = "" /\ body = "" /\ returned = <<>>
  /\ diffChunks = <<>> /\ analyses = <<>> /\ loopI = 0 /\ consolidatedAnalysis = NoAnalysis
  /\ options = <<>> /\ commits = <<>> /\ regenerations = 0
  /\ calls = 0 /\ loopCalls = 0 /\ loopReplies = <<>> /\ lastEvent = "none"

----------------------------------------------------------------------------
(* consolidateAnalysis on its own: a list of analyses is drawn and consolidated *)

\* The longest drawn list of analyses
MaxAnalyses == 3

\* The analyses a list is drawn from; the last one is a decoded object
\* without tipo_principal, cambios and contexto
ConsolidateInputs ==
  {[tipo_principal |-> "feat", componentes |-> <<"api">>,
    cambios |-> <<"agregar ruta">>, contexto |-> "nueva ruta"],
   [tipo_principal |-> "fix", componentes |-> <<"api", "ui">>,
    cambios |-> <<"corregir ruta", "agregar ruta">>, contexto |-> ""],
   [tipo_principal |-> "feat", componentes |-> <<"ui", "db">>,
    cambios |-> <<"ajustar vista">>, contexto |-> "vista"],
   [tipo_principal |-> "docs", componentes |-> <<>>,
    cambios |-> <<>>, contexto |-> "guia"],
   [componentes |-> <<"ui">>]}

InitConsolidate ==
  /\ analyses \in UNION {[1..n -> ConsolidateInputs] : n \in 1..MaxAnalyses}
  /\ pc = "consolidate"
  /\ version = "spanish" /\ listMode = FALSE /\ stagedDiff = "" /\ replyPool = {}
  /\ exitCode = "none" /\ exitReason = ""
  /\ diff = "" /\ fn = "none" /\ caller = "none"
  /\ attempts = 0 /\ title = "" /\ body = "" /\ returned = <<>>
  /\ diffChunks = <<>> /\ loopI = 0 /\ consolidatedAnalysis = NoAnalysis
  /\ options = <<>> /\ commits = <<>> /\ regenerations = 0
  /\ calls = 0 /\ loopCalls = 0 /\ loopReplies = <<>> /\ lastEvent = "none"

\* const consolidatedAnalysis = consolidateAnalysis(analyses)
ConsolidateCall ==
  /\ pc = "consolidate"
  /\ consolidatedAnalysis' = consolidateAnalysis(analyses)
  /\ pc' = "consolidated"
  /\ UNCHANGED <<cfgVars, exitVars, loopVars, userVars, fn, caller, calls, lastEvent,
                 diff, diffChunks, analyses, loopI, options>>

----------------------------------------------------------------------------
(* Specifications *)

NextValidator == Validate /\ UNCHANGED <<cvars, pvars>>

InitValidatorSpec == InitValidator /\ ChunkerIdle /\ PipelineIdle

SpecValidator == InitValidatorSpec /\ [][NextValidator]_vars

NextChunker ==
  \/ SplitStart /\ UNCHANGED <<vvars, pvars>>
  \/ IterateOversized /\ UNCHANGED <<vvars, pvars>>
  \/ IterateFlush /\ UNCHANGED <<vvars, pvars>>
  \/ IterateAppend /\ UNCHANGED <<vvars, pvars>>
  \/ SplitReturn /\ UNCHANGED <<vvars, pvars>>

InitChunkerSpec == InitChunker /\ ValidatorIdle /\ PipelineIdle

SpecChunker == InitChunkerSpec /\ [][NextChunker]_vars

NextRetry ==
  \/ LoopCall /\ UNCHANGED <<vvars, cvars>>
  \/ LoopExhausted /\ UNCHANGED <<vvars, cvars>>
  \/ ReplyAccepted /\ UNCHANGED <<vvars, cvars>>
  \/ ReplyRejected /\ UNCHANGED <<vvars, cvars>>
  \/ ReplyThrows /\ UNCHANGED <<vvars, cvars>>
  \/ BackendError /\ UNCHANGED <<vvars, cvars>>

InitRetrySpec == InitRetry /\ ValidatorIdle /\ ChunkerIdle

SpecRetry == InitRetrySpec /\ [][NextRetry]_vars


NextConsolidate == ConsolidateCall /\ UNCHANGED <<vvars, cvars>>

InitConsolidateSpec == InitConsolidate /\ ValidatorIdle /\ ChunkerIdle

SpecConsolidate == InitConsolidateSpec /\ [][NextConsolidate]_vars

Next ==
  \/ ExitNoChanges /\ UNCHANGED <<vvars, cvars>>
  \/ GenerateSimple /\ UNCHANGED <<vvars, cvars>>
  \/ GenerateSingle /\ UNCHANGED <<vvars, cvars>>
  \/ GenerateChunked /\ UNCHANGED <<vvars, cvars>>
  \/ ListCall /\ UNCHANGED <<vvars, cvars>>
  \/ ListReplyUnchecked /\ UNCHANGED <<vvars, cvars>>
  \/ ListLoopEnter /\ UNCHANGED <<vvars, cvars>>
  \/ ListLoopCall /\ UNCHANGED <<vvars, cvars>>
  \/ ListLoopReply /\ UNCHANGED <<vvars, cvars>>
  \/ ListLoopNoOptions /\ UNCHANGED <<vvars, cvars>>
  \/ ListLoopReturn /\ UNCHANGED <<vvars, cvars>>
  \/ AnalyzeCall /\ UNCHANGED <<vvars, cvars>>
  \/ AnalysisThenPause /\ UNCHANGED <<vvars, cvars>>
  \/ AnalysisLast /\ UNCHANGED <<vvars, cvars>>
  \/ AnalysisPause /\ UNCHANGED <<vvars, cvars>>
  \/ Consolidate /\ UNCHANGED <<vvars, cvars>>
  \/ OptionStart /\ UNCHANGED <<vvars, cvars>>
  \/ OptionPush /\ UNCHANGED <<vvars, cvars>>
  \/ OptionsReturn /\ UNCHANGED <<vvars, cvars>>
  \/ LoopCall /\ UNCHANGED <<vvars, cvars>>
  \/ LoopExhausted /\ UNCHANGED <<vvars, cvars>>
  \/ ReplyAccepted /\ UNCHANGED <<vvars, cvars>>
  \/ ReplyRejected /\ UNCHANGED <<vvars, cvars>>
  \/ ReplyThrows /\ UNCHANGED <<vvars, cvars>>
  \/ BackendError /\ UNCHANGED <<vvars, cvars>>
  \/ ShowMessage /\ UNCHANGED <<vvars, cvars>>
  \/ Confirm /\ UNCHANGED <<vvars, cvars>>
  \/ Decline /\ UNCHANGED <<vvars, cvars>>
  \/ ChooseOption /\ UNCHANGED <<vvars, cvars>>
  \/ Regenerate /\ UNCHANGED <<vvars, cvars>>

Init == InitPipeline /\ ValidatorIdle /\ ChunkerIdle

Spec == Init /\ [][Next]_vars
----------------------------------------------------------------------------
(* Properties of splitDiffIntoChunks (SpecChunker) *)

ChunkLines(k) == Split(chunks[k], "\n")

\* The lines of chunk k behind its overlap seed
OwnLines(k) == SubSeq(ChunkLines(k), chunkInfo[k].seed + 1, Len(ChunkLines(k)))

\* C6: every returned chunk costs at most maxTokens estimated tokens.
C6_EveryChunkWithinBudget ==
  cpc = "done" => \A k \in 1..Len(chunks) : estimateTokens(chunks[k]) <= maxTokens

\* The lines of chunks 1..k with the overlap seeds removed, chunk after chunk
RECURSIVE OwnLinesUpTo(_)
OwnLinesUpTo(k) == IF k = 0 THEN <<>> ELSE OwnLinesUpTo(k - 1) \o OwnLines(k)

\* C7 as stated: the chunks' lines minus the overlap seeds, concatenated in
\* order, are the original sequence of lines.
C7_ChunkLinesMinusOverlapAreInput ==
  cpc = "done" => OwnLinesUpTo(Len(chunks)) = Split(cDiff, "\n")

\* Chunk k continues the oversized line whose previous window is chunk k - 1
ContinuesWindow(k) ==
  /\ k > 1
  /\ chunkInfo[k].path = "window"
  /\ chunkInfo[k - 1].path = "window"
  /\ chunkInfo[k - 1].src = chunkInfo[k].src

\* As OwnLinesUpTo, with the windows of one oversized line joined back into a line
RECURSIVE RejoinedUpTo(_)
RejoinedUpTo(k) ==
  IF k = 0 THEN <<>>
  ELSE LET before == RejoinedUpTo(k - 1)
       IN  IF ContinuesWindow(k)
           THEN [before EXCEPT ![Len(before)] = @ \o chunks[k]]
           ELSE before \o OwnLines(k)

\* C7 amended: the chunks' lines minus the overlap seeds, with the windows cut
\* from one oversized line joined back into that line, are the original
\* sequence of lines: nothing lost, nothing duplicated, order kept.
C7_RejoinedChunksAreInput ==
  cpc = "done" => RejoinedUpTo(Len(chunks)) = Split(cDiff, "\n")

\* A finished run that flushed, seeded an overlap and cut an oversized line
C7_Witness ==
  /\ cpc = "done"
  /\ \E k \in 1..Len(chunks) : chunkInfo[k].path = "flush"
  /\ \E k \in 1..Len(chunks) : chunkInfo[k].seed > 0
  /\ \E k \in 1..Len(chunks) : ContinuesWindow(k)

\* C8: a chunk pushed by the flush branch is followed by a chunk that starts
\* with its last min(5, number of lines) lines, in the same order.
C8_FlushedChunkTailOpensNext ==
  \A k \in 1..(Len(chunks) - 1) :
    chunkInfo[k].path = "flush" =>
      LET a == ChunkLines(k)
          b == ChunkLines(k + 1)
          n == Min(5, Len(a))
      IN  /\ Len(b) >= n
          /\ SubSeq(b, 1, n) = SubSeq(a, Len(a) - n + 1, Len(a))

\* A flushed chunk of more than 5 lines, not all alike, with a successor
C8_Witness ==
  \E k \in 1..(Len(chunks) - 1) :
    /\ chunkInfo[k].path = "flush"
    /\ Len(ChunkLines(k)) > 5
    /\ ChunkLines(k)[1] # ChunkLines(k)[Len(ChunkLines(k))]


\* The consecutive windows of width characters of a line, in order
WindowsOf(line, width) ==
  [k \in 1..((Len(line) + width - 1) \div width) |->
     SubSeq(line, (k - 1) * width + 1, Min(k * width, Len(line)))]

\* C24: on a line whose estimated cost exceeds maxTokens, splitDiffIntoChunks
\* first emits the accumulated chunk, if there is one, and empties the
\* accumulator, then emits the line as consecutive windows of maxTokens*4
\* characters, in order, each a chunk of its own: no overlap line is added to
\* a window and none is seeded into the chunk that follows.
C24_OversizedLineEmittedAsWindows ==
  [][(cpc = "loop" /\ idx < Len(lines) /\ estimateTokens(lines[idx + 1]) > maxTokens) =>
       LET line == lines[idx + 1]
           before == IF currentChunk # <<>>
                     THEN <<Join(currentChunk, "\n")>>
                     ELSE <<>>
       IN  /\ chunks' = chunks \o before \o WindowsOf(line, maxTokens * 4)
           /\ currentChunk' = <<>>
           /\ currentTokens' = 0]_vars

\* A line of 10 characters met with budget 1 and two lines accumulated: the
\* accumulated chunk and the three windows are the last four chunks
C24_Witness ==
  /\ cpc = "loop" /\ maxTokens = 1
  /\ idx >= 3 /\ lines[idx] = "0123456789"
  /\ Len(chunks) >= 4
  /\ SubSeq(chunks, Len(chunks) - 3, Len(chunks)) = <<"\n", "0123", "4567", "89">>
  /\ currentChunk = <<>>

\* The chunks pushed from the accumulator (not the windows of a long line)
AccumulatedChunks == {k \in 1..Len(chunks) : chunkInfo[k].path # "window"}

\* C28: splitDiffIntoChunks terminates (the loop index never passes the last
\* line), no chunk it returns is the empty text, every chunk pushed from the
\* accumulator has at least one input line behind its overlap seed, and so
\* there are never more such chunks than input lines.
C28_ChunksNonEmptyAndBounded ==
  /\ idx <= Len(lines)
  /\ \A k \in 1..Len(chunks) : chunks[k] # ""
  /\ \A k \in AccumulatedChunks : Len(ChunkLines(k)) > chunkInfo[k].seed
  /\ cpc \in {"loop", "done"} => Cardinality(AccumulatedChunks) <= Len(lines)
----------------------------------------------------------------------------
(* Properties of validateSpanishCommit (SpecValidator) *)

\* C9: "fix: corregir error" with body "agregar validacion" is judged valid.
C9_FixCorregirErrorIsValid ==
  (vpc = "done" /\ vTitle = "fix: corregir error" /\ vBody = "agregar validacion")
    => verdict.isValid

\* Word w occurs in text, letter case ignored
OccursIgnoringCase(w, text) ==
  \E k \in 1..Len(text) :
    /\ k + Len(w) - 1 <= Len(text)
    /\ \A j \in 1..Len(w) : LowerChar(Char(text, k + j - 1)) = LowerChar(Char(w, j))

C26_SpanishWordsAreValid ==
  (vpc = "done" /\ vBody \in SpanishWords /\ vTitle = "feat: " \o vBody)
    => verdict.isValid
----------------------------------------------------------------------------
(* Properties of the retry loops (SpecRetry) *)

\* The last reply the loop received
LastReply == loopReplies[Len(loopReplies)]

\* The loop has dealt with its last reply, which the backend did deliver
ReplyProcessed ==
  /\ Len(loopReplies) >= 1
  /\ pc \in {"loop", "returned", "exited"}
  /\ exitReason # "BackendError"

\* C1: when the replies of attempts 1..k-1 fail the acceptance check and the
\* reply of attempt k passes it, the loop returns the title and body parsed
\* from reply k after exactly k backend calls.  Stated on the replies received
\* so far: after a failing reply with attempts left the loop goes on to its
\* next attempt, and a passing reply is returned with one call per reply.
C1_PassingKthReplyReturnedAfterKCalls ==
  ReplyProcessed =>
    LET k == Len(loopReplies)
    IN  (\A i \in 1..(k - 1) : ~AcceptedBy[version][loopReplies[i]]) =>
          /\ AcceptedBy[version][LastReply] =>
               /\ pc = "returned"
               /\ returned = <<[title |-> ParsedReply[LastReply].title,
                                body |-> ParsedReply[LastReply].body]>>
               /\ loopCalls = k
          /\ (~AcceptedBy[version][LastReply] /\ k < MaxAttempts(version)) =>
               /\ pc = "loop"
               /\ attempts = k
               /\ loopCalls = k

\* C2: when no reply passes the acceptance check, the loop makes exactly
\* maxAttempts backend calls and then fails as exhausted: exit status 1,
\* nothing returned, nothing committed.
C2_NoPassingReplyExhaustsAfterMaxAttempts ==
  (/\ pc = "exited"
   /\ exitReason # "BackendError"
   /\ \A i \in 1..Len(loopReplies) : ~AcceptedBy[version][loopReplies[i]]) =>
    /\ loopCalls = MaxAttempts(version)
    /\ exitReason = "ExhaustedRetries"
    /\ exitCode = "1"
    /\ returned = <<>>
    /\ commits = <<>>

\* The verdict of validateSpanishCommit on every answer, computed once
VerdictOf ==
  [r \in AllReplies |-> validateSpanishCommit(ParsedReply[r].title, ParsedReply[r].body)]

\* The loop has parsed its last reply into title and body and decided on it
ReplyDecided ==
  /\ Len(loopReplies) >= 1
  /\ \/ pc \in {"loop", "returned"}
     \/ pc = "exited" /\ exitReason = "ExhaustedRetries"

\* The substring of t before its first ':' (all of t when it has none)
BeforeFirstColon(t) == Split(t, ":")[1]

StartsWith(s, prefix) == Len(s) >= Len(prefix) /\ SubSeq(s, 1, Len(prefix)) = prefix

\* t is "<type>: <text>" or "<type>(<scope>): <text>" for the commit type ty
HasTitleForm(t, ty) ==
  \/ /\ StartsWith(t, ty \o ": ")
     /\ Len(t) > Len(ty) + 2
  \/ /\ StartsWith(t, ty \o "(")
     /\ \E k \in (Len(ty) + 3)..Len(t) :
          /\ k + 2 < Len(t)
          /\ SubSeq(t, k, k + 2) = "): "
          /\ \A j \in (Len(ty) + 2)..(k - 1) : Char(t, j) \notin {"(", ")"}

\* The title invariant of CommitMessage
TitleInvariant(t) ==
  /\ Len(t) > 0
  /\ Len(t) <= 50
  /\ \E k \in 1..Len(validTypes) : HasTitleForm(t, validTypes[k])

\* C5: every message a retry loop returns has a title that is not empty, has at
\* most 50 characters and reads "<type>: <text>" or "<type>(<scope>): <text>".
C5_ReturnedTitleSatisfiesInvariant ==
  returned # <<>> => TitleInvariant(returned[1].title)


\* C18: a reply without a non-empty line counts as one failed attempt: the
\* loop goes on to its next attempt, and fails only as exhausted after
\* maxAttempts attempts.
C18_UnparsableReplyIsRetried ==
  (ReplyProcessed /\ ParsedReply[LastReply].threw) =>
    \/ pc = "loop" /\ attempts = Len(loopReplies)
    \/ /\ pc = "exited"
       /\ exitReason = "ExhaustedRetries"
       /\ loopCalls = MaxAttempts(version)

\* The answers that are a message of a valid commit type with a non-empty
\* body, whose words (the title after its type prefix, and the body) have no
\* foreign-language marker
SpanishRepliesOfValidType ==
  {r \in AllReplies :
     /\ ~ParsedReply[r].threw
     /\ Len(ParsedReply[r].body) > 0
     /\ ArrayIncludes(validTypes, CommitTypeOf(ParsedReply[r].title))
     /\ Len(Split(ParsedReply[r].title, ":")) > 1
     /\ validateSpanishCommit(Join(Tail(Split(ParsedReply[r].title, ":")), ":"),
                              ParsedReply[r].body).isValid}

\* C25: in the retry loops that validate the language every commit type is
\* acceptable: a run whose backend always answers with a Spanish message of a
\* valid type and a non-empty body does not exhaust its attempts.
C25_EveryCommitTypeIsAcceptable ==
  (LanguageValidation(version) /\ pc = "exited" /\ exitReason = "ExhaustedRetries") =>
    \E k \in 1..Len(loopReplies) : loopReplies[k] \notin SpanishRepliesOfValidType
----------------------------------------------------------------------------
(* Properties of the whole program (Spec) *)

\* C3: every message the program commits, whether confirmed in single mode or
\* selected in list mode, has passed the validation: its body is not empty, its
\* type prefix is a commit type and, where the language is validated, it has no
\* foreign-language marker.
C3_OnlyValidatedMessagesAreCommitted ==
  \A k \in 1..Len(commits) : Accepts(version, commits[k].title, commits[k].body)

\* C15: a failed backend call, whichever call it is, ends the run at once with
\* exit status 1 and without a commit; the call is not issued again and no
\* other backend call follows.
C15_BackendFailureIsFatal ==
  /\ [](exitReason = "BackendError" =>
          pc = "exited" /\ exitCode = "1" /\ commits = <<>>)
  /\ [][exitReason = "BackendError" => calls' = calls /\ commits' = commits]_vars

\* The second analysis call of a run fails
C15_Witness ==
  /\ exitReason = "BackendError"
  /\ pc = "exited"
  /\ Len(analyses) = 1
  /\ calls = 2

\* C16: generateCommit sends a diff whose estimated cost is at most the
\* threshold to generateSingleCommit without calling the chunker, and for a
\* diff above the threshold the chunker is called and returns at least 2 chunks.
C16_ChunkedDiffHasTwoChunks ==
  (~listMode /\ version # "simple" /\ pc # "start" /\ Trim(stagedDiff) # "") =>
    IF estimateTokens(diff) <= MAX_TOKEN_LENGTH
    THEN diffChunks = <<>> /\ fn = "generateSingleCommit"
    ELSE Len(diffChunks) >= 2

\* C17: when the staged diff is empty or only white space, the run ends with
\* exit status 0 before any backend call and without a commit.
C17_EmptyDiffExitsCleanly ==
  (Trim(stagedDiff) = "" /\ pc # "start") =>
    /\ pc = "exited"
    /\ exitCode = "0"
    /\ calls = 0
    /\ commits = <<>>

\* The run on a diff of white space has ended
C17_Witness ==
  /\ stagedDiff = " \n"
  /\ pc = "exited"
  /\ exitReason = "NoChanges"

\* C19: in list mode every option handed to the user has passed the test of the
\* retry loops: body not empty, type prefix a commit type and, where the
\* language is validated, isValid.
C19_ListOptionsPassTheLoopTest ==
  (listMode /\ pc = "choose") =>
    \A k \in 1..Len(options) : Accepts(version, options[k].title, options[k].body)

\* C20: in list mode there are never more options than requested, and the run
\* fails for want of valid messages only when no option has been accumulated,
\* on the short-diff path and on the long-diff path.
C20_ListFailsOnlyWithoutOptions ==
  listMode =>
    /\ Len(options) <= NumOptions
    /\ (pc = "exited" /\ exitReason \in {"ExhaustedRetries", "NoValidOptions"}) =>
         options = <<>>


\* C21: between two consecutive backend calls of one run the fixed delay is
\* awaited: a backend call is issued only when the event before it is not
\* another backend call (analysis after analysis, final generation after the
\* last analysis, retry attempt after retry attempt).
C21_DelayBetweenConsecutiveCalls ==
  [][calls' # calls => lastEvent # "call"]_vars

\* C22: the delay is never awaited after the last backend call of a batch: when
\* the analysis loop of generateCommit or of the long-diff path of
\* generateListCommits is over, and when the options of the long-diff path are
\* returned, the latest event is a backend call and not a delay.
C22_NoDelayAfterLastCallOfBatch ==
  /\ (pc = "analyze" /\ loopI >= AnalysisBound) => lastEvent = "call"
  /\ (pc = "choose" /\ diffChunks # <<>>) => lastEvent = "call"

\* The analyses recorded so far are those of the chunks 1..n, one each, in
\* index order: the k-th is what analyzeChunk makes of some reply for chunk k
AnalysesOfChunks ==
  {<<k, analyzeChunk(response, k - 1)>> :
     k \in UNION {1..Len(ChunksOf[d]) : d \in PipelineDiffs},
     response \in AnalysisReplies}

AnalysesInIndexOrder ==
  \A k \in 1..Len(analyses) : <<k, analyses[k]>> \in AnalysesOfChunks

\* One call at a time: the call for chunk i+1 is in flight only when the
\* analyses of the chunks 1..i are recorded, and no chunk is analysed twice
OneAnalysisAtATime ==
  /\ pc \in {"analyze", "await_analysis"} => Len(analyses) = loopI
  /\ pc = "pause_analysis" => Len(analyses) = loopI + 1
  /\ Len(analyses) <= Len(diffChunks)

\* C23: on the chunked path every chunk the chunker returned is analysed
\* exactly once, one at a time and in index order, and consolidation receives
\* the analyses of all the chunks in chunk order.
C23_EveryChunkAnalysedInOrder ==
  /\ AnalysesInIndexOrder
  /\ OneAnalysisAtATime
  /\ consolidatedAnalysis # NoAnalysis =>
       /\ Len(analyses) = Len(diffChunks)
       /\ consolidatedAnalysis = consolidateAnalysis(analyses)

\* C23 as the code has it: the same, but the long-diff path of
\* generateListCommits analyses and consolidates only the first 3 chunks
\* (all of them when there are fewer); generateCommit analyses all.
C23_ChunksAnalysedInOrderUpToBound ==
  /\ AnalysesInIndexOrder
  /\ OneAnalysisAtATime
  /\ consolidatedAnalysis # NoAnalysis =>
       /\ Len(analyses) =
            IF listMode THEN Min(Len(diffChunks), 3) ELSE Len(diffChunks)
       /\ consolidatedAnalysis = consolidateAnalysis(analyses)

\* generateCommit has consolidated the analyses of 4 chunks, the third of
\* them the manual analysis of chunk 3
C23_Witness ==
  /\ ~listMode
  /\ Len(diffChunks) = 4
  /\ Len(analyses) = 4
  /\ analyses[3] = analyzeChunk("sin formato", 2)
  /\ consolidatedAnalysis # NoAnalysis

\* C27: consolidateAnalysis is always called with at least one analysis: the
\* chunker returns at least one chunk, both analysis loops analyse at least
\* one chunk, and the failure of consolidateAnalysis on an empty list never
\* ends a run.
C27_ConsolidationHasAnalyses ==
  /\ pc \in {"analyze", "await_analysis", "pause_analysis"} => Len(diffChunks) >= 1
  /\ (pc = "analyze" /\ loopI >= AnalysisBound) => Len(analyses) >= 1
  /\ consolidatedAnalysis # NoAnalysis => Len(analyses) >= 1
  /\ ~(/\ pc = "exited" /\ exitReason = "TypeError"
       /\ version # "simple" /\ estimateTokens(diff) > MAX_TOKEN_LENGTH
       /\ analyses = <<>>)

\* The analysis loop of generateListCommits is over on a diff of one chunk,
\* and consolidateAnalysis is about to be called with its one analysis
C27_Witness ==
  /\ listMode
  /\ pc = "analyze" /\ loopI >= AnalysisBound
  /\ Len(diffChunks) = 1
  /\ Len(analyses) = 1
----------------------------------------------------------------------------
(* Properties of analyzeChunk and consolidateAnalysis *)

\* The four fields of a SegmentAnalysis
AnalysisFields == {"tipo_principal", "componentes", "cambios", "contexto"}

\* C11: every analysis analyzeChunk hands to the consolidation is well formed:
\* it has a type, a list of components, a list of changes and a context; a
\* reply that cannot be decoded, or that decodes to an object with fields
\* missing, is replaced by the fallback analysis.
C11_EveryAnalysisIsWellFormed ==
  \A k \in 1..Len(analyses) : DOMAIN analyses[k] = AnalysisFields

\* How often type t occurs in the analyses
TypeCount(t) == Cardinality({i \in 1..Len(analyses) : TipoOf(analyses[i]) = t})

\* Where type t occurs first in the analyses
FirstOfType(t) ==
  CHOOSE i \in 1..Len(analyses) :
    /\ TipoOf(analyses[i]) = t
    /\ \A j \in 1..(i - 1) : TipoOf(analyses[j]) # t

\* C12: the consolidated type is a type with the highest number of
\* occurrences and, among the types that share that number, the one that
\* occurs first in the sequence.
C12_PrimaryTypeIsFirstMostFrequent ==
  pc = "consolidated" =>
    LET r == consolidatedAnalysis.tipo_principal
    IN  /\ \E i \in 1..Len(analyses) : TipoOf(analyses[i]) = r
        /\ \A i \in 1..Len(analyses) :
             LET t == TipoOf(analyses[i])
             IN  /\ TypeCount(t) <= TypeCount(r)
                 /\ TypeCount(t) = TypeCount(r) => FirstOfType(r) <= FirstOfType(t)

\* Two types share the highest count, and the one that occurs first is the result
C12_Witness ==
  /\ pc = "consolidated"
  /\ \E i, j \in 1..Len(analyses) :
       /\ i < j
       /\ TipoOf(analyses[i]) # TipoOf(analyses[j])
       /\ TypeCount(TipoOf(analyses[i])) = TypeCount(TipoOf(analyses[j]))
       /\ \A k \in 1..Len(analyses) :
            TypeCount(TipoOf(analyses[k])) <= TypeCount(TipoOf(analyses[i]))
       /\ consolidatedAnalysis.tipo_principal = TipoOf(analyses[i])

\* The array field f of the analyses, segment after segment
RECURSIVE FieldUpTo(_, _)
FieldUpTo(f, n) ==
  IF n = 0 THEN <<>>
  ELSE FieldUpTo(f, n - 1) \o (IF f \in DOMAIN analyses[n] THEN analyses[n][f] ELSE <<>>)

\* Where x occurs first in arr
FirstIn(arr, x) ==
  CHOOSE i \in 1..Len(arr) : arr[i] = x /\ \A j \in 1..(i - 1) : arr[j] # x

\* C13: the consolidated components are the union of the segments'
\* components, each once, in the order of their first appearance; the
\* consolidated changes are the segments' changes one after the other, in
\* segment order, duplicates kept.
C13_ComponentsUniqueChangesConcatenated ==
  pc = "consolidated" =>
    LET all == FieldUpTo("componentes", Len(analyses))
        res == consolidatedAnalysis.componentes
    IN  /\ {res[i] : i \in 1..Len(res)} = {all[i] : i \in 1..Len(all)}
        /\ \A i, j \in 1..Len(res) : i # j => res[i] # res[j]
        /\ \A i, j \in 1..Len(res) : i < j => FirstIn(all, res[i]) < FirstIn(all, res[j])
        /\ consolidatedAnalysis.cambios = FieldUpTo("cambios", Len(analyses))

\* A component named by two segments, between them a new one, and a change
\* listed twice
C13_Witness ==
  /\ pc = "consolidated"
  /\ LET all == FieldUpTo("componentes", Len(analyses))
         ch == consolidatedAnalysis.cambios
     IN  /\ \E i, j, k \in 1..Len(all) :
               i < j /\ j < k /\ all[i] = all[k] /\ all[j] # all[i]
                     /\ \A m \in 1..(j - 1) : all[m] # all[j]
         /\ \E i, j \in 1..Len(ch) : i < j /\ ch[i] = ch[j]

\* The context of segment n, empty when the analysis has none
ContextOf(n) == IF "contexto" \in DOMAIN analyses[n] THEN analyses[n].contexto ELSE ""

\* C14 as stated: the consolidated context is the contexts of all n segments
\* joined with ". ", one entry per segment, the empty ones included.
C14_ContextsOfAllSegmentsJoined ==
  pc = "consolidated" =>
    consolidatedAnalysis.contexto_general =
      Join([n \in 1..Len(analyses) |-> ContextOf(n)], ". ")

NonEmptyText(s) == s # ""

\* C14 amended: the consolidated context is the non-empty contexts of the
\* segments joined with ". " in segment order; a segment whose context is
\* empty or missing contributes nothing.
C14_NonEmptyContextsJoined ==
  pc = "consolidated" =>
    consolidatedAnalysis.contexto_general =
      Join(SelectSeq([n \in 1..Len(analyses) |-> ContextOf(n)], NonEmptyText), ". ")

\* A segment with an empty context between two segments that have one
C14_Witness ==
  /\ pc = "consolidated"
  /\ Len(analyses) = 3
  /\ ContextOf(1) # "" /\ ContextOf(2) = "" /\ ContextOf(3) # ""
  /\ ContextOf(1) # ContextOf(3)

====
